---- MODULE Spec2Model ----
(***************************************************************************)
(* tinyback/services.py: the resolution layer of TinyBack.  One service    *)
(* instance (any class of _factory_map) serves a sequence of fetch(code)   *)
(* calls over its own httplib connection.  The transport's answers are the *)
(* inputs; every class's fetch, hook and parser is an operator translated  *)
(* from its Python text.  factory and the constructors are modelled on a   *)
(* heap of objects (SpecFactory).                                          *)
(*                                                                         *)
(* Strings are TLA+ strings.  Python's None is the value None below.  A    *)
(* response body is a record: its text, the literals of the source that    *)
(* occur in it ("x in data"), the regular expression of the source that    *)
(* matches it and what group(1) captures, and what json.loads makes of it. *)
(***************************************************************************)
EXTENDS Integers, Sequences, FiniteSets, TLC

VARIABLES
    svc,        \* the registry name the instance was constructed from
    conn,       \* self._conn: "closed" (no socket) or "open"
    pc,         \* "idle" (no call yet), "get" (HEAD done, GET pending), "done"
    code,       \* the argument of the fetch call in progress or last ended
    exchanges,  \* the HTTP exchanges of that call: <<[req, ans], ...>>
    dispatched, \* what SimpleService.fetch returned or raised in that call
    result,     \* what fetch returned or raised
    mode,       \* "free": any answer per exchange; "stub": a fixed answer per request
    stub,       \* the answers the stubbed transport has given: {[req, ans]}
    first,      \* stub mode: the result of the first fetch of each code
    calls,      \* stub mode: the number of fetch calls ended, up to MaxCalls
    heap,       \* the instances and connections constructed, each at its identity
    returned    \* the last factory call: its name and what it returned or raised

vars == <<svc, conn, pc, code, exchanges, dispatched, result, mode, stub, first, calls,
          heap, returned>>

\* The fetch calls counted on one instance
MaxCalls == 3

\* The instances factory makes
MaxInstances == 2

None == "<None>"

----------------------------------------------------------------------------
(* The registry and the per-class configuration.                           *)

factory_map ==
    [ bitly |-> "Bitly", isgd |-> "Isgd", owly |-> "Owly", tinyurl |-> "Tinyurl",
      ur1ca |-> "Ur1ca", snipurl |-> "Snipurl", googl |-> "Googl",
      trimnew |-> "Trimnew", postly |-> "Postly", wpme |-> "Wpme",
      visiblihex |-> "VisibliHex", visibli |-> "Visibli", vbly |-> "Vbly",
      arsehat |-> "Arsehat", pixorial |-> "Pixorial", twitter |-> "Twitter",
      trim |-> "Trim" ]

Services == DOMAIN factory_map

YourlsServices == {"vbly", "arsehat"}
VisibliServices == {"visiblihex", "visibli"}

\* The classes that inherit SimpleService (the generic dispatcher's table).
SimpleServices ==
    {"isgd", "owly", "ur1ca", "snipurl", "trimnew", "postly", "wpme",
     "visiblihex", "visibli", "pixorial", "twitter", "trim"}

\* The classes that inherit HTTPService (_http_head / _http_get).
HTTPServices == SimpleServices \cup {"bitly", "tinyurl"}

\* The codes fetch is called with: an ordinary one and the two that
\* Trimnew.fetch and Trim.fetch compare the code with.
Codes == {"abc", "404", "500"}

\* The value of the class's url / yourls_api_url property.
url(s) ==
    CASE s = "bitly" -> "http://bit.ly/"
      [] s = "isgd" -> "http://is.gd/"
      [] s = "owly" -> "http://ow.ly/"
      [] s = "tinyurl" -> "http://tinyurl.com/"
      [] s = "ur1ca" -> "http://ur1.ca/"
      [] s = "snipurl" -> "http://snipurl.com"
      [] s = "trimnew" -> "http://tr.im/"
      [] s = "postly" -> "https://post.ly/"
      [] s = "wpme" -> "http://wp.me/"
      [] s = "visiblihex" -> "http://links.sharedby.co/links/"
      [] s = "visibli" -> "http://sharedby.co/"
      [] s = "pixorial" -> "http://myhub.pixorial.com/s/"
      [] s = "twitter" -> "http://t.co/"
      [] s = "trim" -> "http://tr.im/"
      [] s = "vbly" -> "http://vbly.us/yourls-api.php"
      [] s = "arsehat" -> "http://arseh.at/api.php"
      [] s = "googl" -> "https://www.googleapis.com"

http_keepalive(s) == s \notin {"snipurl", "pixorial", "twitter"}

UserAgent == "Mozilla/5.0 (Macintosh; Intel Mac OS X 10.8.3) Gecko/20120431 Firefox/18.0"

\* A Python dict of headers is a set of <<name, value>> pairs with one pair per name.
DictSet(d, k, v) == {p \in d : p[1] # k} \cup {<<k, v>>}

\* The property builds a new dict on every access.
http_headers(s) ==
    IF s \in VisibliServices THEN {<<"User-Agent", UserAgent>>} ELSE {}

http_status_redirect(s) ==
    IF s \in {"trimnew", "postly"} \cup VisibliServices THEN {301} ELSE {301, 302}

http_status_no_redirect(s) ==
    CASE s = "ur1ca" -> {200}
      [] s = "snipurl" -> {410}
      [] s = "trimnew" -> {}
      [] s = "postly" -> {302}
      [] s \in VisibliServices -> {}
      [] OTHER -> {404}

http_status_code_blocked(s) ==
    CASE s = "isgd" -> {502}
      [] s = "trimnew" -> {}
      [] OTHER -> {410}

http_status_blocked(s) ==
    IF s = "trimnew" THEN {404} ELSE {403, 420, 429}

----------------------------------------------------------------------------
(* urlparse, urllib and HTMLParser on the strings the model uses.  A URL    *)
(* the model knows is written from its parts by urlunparse; urlparse is    *)
(* its inverse on those texts, parse_qs and unquote work on the query.     *)

RECURSIVE QueryText(_)
\* "k=v&k=v" for a sequence of <<key, raw value>> pairs.
QueryText(pairs) ==
    IF pairs = <<>> THEN ""
    ELSE pairs[1][1] \o "=" \o pairs[1][2]
         \o (IF Len(pairs) = 1 THEN "" ELSE "&" \o QueryText(Tail(pairs)))

urlunparse(u) ==
    u.scheme \o "://" \o u.netloc \o u.path
    \o (IF u.pairs = <<>> THEN "" ELSE "?" \o QueryText(u.pairs))

Url(scheme, netloc, path, pairs) ==
    [scheme |-> scheme, netloc |-> netloc, path |-> path, pairs |-> pairs]

LongUrl == "http://example.org/x"
LongUrlQuoted == "http%3A%2F%2Fexample.org%2Fx"
OtherUrlQuoted == "http%3A%2F%2Fexample.org%2Fy"
ShopUrlQuoted == "http%3A%2F%2Fshop.example%2F"
\* A code no fetch call is made with.
OtherCode == "zzz"

\* urllib.unquote: %XX becomes the byte XX.
unquote(v) ==
    CASE v = LongUrlQuoted -> "http://example.org/x"
      [] v = OtherUrlQuoted -> "http://example.org/y"
      [] v = ShopUrlQuoted -> "http://shop.example/"
      [] OTHER -> v

\* The Location values of bit.ly's 302 for code c: the warning page, and
\* each way the checks of _parse_warning_url can fail.
BitlyWarningUrls(c) ==
    { Url("http", "bit.ly", "/a/warning", <<<<"url", LongUrlQuoted>>, <<"hash", c>>>>),
      Url("http", "bit.ly", "/a/warning", <<<<"url", LongUrlQuoted>>, <<"hash", OtherCode>>>>),
      Url("http", "bit.ly", "/a/warning", <<<<"hash", c>>>>),
      Url("http", "bit.ly", "/a/warning", <<<<"url", LongUrlQuoted>>>>),
      Url("http", "bit.ly", "/a/warning", <<<<"url", "">>, <<"hash", c>>>>),
      Url("http", "bit.ly", "/a/warning",
          <<<<"url", LongUrlQuoted>>, <<"url", OtherUrlQuoted>>, <<"hash", c>>>>),
      Url("http", "bit.ly", "/a/warning",
          <<<<"url", LongUrlQuoted>>, <<"hash", c>>, <<"hash", c>>>>),
      Url("http", "bit.ly", "/a/other", <<<<"url", LongUrlQuoted>>, <<"hash", c>>>>),
      Url("http", "evil.example", "/a/warning", <<<<"url", LongUrlQuoted>>, <<"hash", c>>>>),
      Url("https", "bit.ly", "/a/warning", <<<<"url", LongUrlQuoted>>, <<"hash", c>>>>) }

\* The Location values of tinyurl.com's affiliate 301.
TinyurlClickUrls ==
    { Url("http", "redirect.tinyurl.com", "/api/click",
          <<<<"key", "k">>, <<"out", ShopUrlQuoted>>>>),
      Url("http", "redirect.tinyurl.com", "/api/click", <<<<"key", "k">>>>),
      Url("http", "redirect.tinyurl.com", "/api/other",
          <<<<"key", "k">>, <<"out", ShopUrlQuoted>>>>),
      Url("http", "shop.example", "/api/click", <<<<"out", ShopUrlQuoted>>>>) }

\* The refresh targets of tinyurl.com's "errorhelp" page for code c.
TinyurlErrorhelpUrls(c) ==
    { Url("http", "tinyurl.com", "/errorb.php",
          <<<<"url", LongUrlQuoted>>, <<"path", "/" \o c>>>>),
      Url("http", "tinyurl.com", "/errorb.php",
          <<<<"url", LongUrlQuoted>>, <<"path", "/" \o OtherCode>>>>),
      Url("http", "tinyurl.com", "/errorb.php", <<<<"path", "/" \o c>>>>),
      Url("http", "tinyurl.com", "/other.php",
          <<<<"url", LongUrlQuoted>>, <<"path", "/" \o c>>>>) }

BaseUrls ==
    { Url("http", "bit.ly", "/", <<>>), Url("http", "is.gd", "/", <<>>),
      Url("http", "ow.ly", "/", <<>>), Url("http", "tinyurl.com", "/", <<>>),
      Url("http", "ur1.ca", "/", <<>>), Url("http", "snipurl.com", "", <<>>),
      Url("http", "tr.im", "/", <<>>), Url("https", "post.ly", "/", <<>>),
      Url("http", "wp.me", "/", <<>>), Url("http", "links.sharedby.co", "/links/", <<>>),
      Url("http", "sharedby.co", "/", <<>>), Url("http", "myhub.pixorial.com", "/s/", <<>>),
      Url("http", "t.co", "/", <<>>), Url("http", "vbly.us", "/yourls-api.php", <<>>),
      Url("http", "arseh.at", "/api.php", <<>>), Url("https", "www.googleapis.com", "", <<>>),
      Url("http", "example.org", "/x", <<>>) }

KnownUrls ==
    BaseUrls \cup TinyurlClickUrls
    \cup UNION {BitlyWarningUrls(c) \cup TinyurlErrorhelpUrls(c) : c \in Codes}

\* urlparse.urlparse(text): scheme, netloc, path and the query string's pairs.
urlparse(text) == CHOOSE u \in KnownUrls : urlunparse(u) = text

\* urlparse.parse_qs(query)[k], or <<>> when k is no key of it: the unquoted
\* values of k in order; a pair with a blank value is dropped
\* (keep_blank_values is off).
RECURSIVE parse_qs(_, _)
parse_qs(pairs, k) ==
    IF pairs = <<>> THEN <<>>
    ELSE (IF pairs[1][1] = k /\ pairs[1][2] # "" THEN <<unquote(pairs[1][2])>> ELSE <<>>)
         \o parse_qs(Tail(pairs), k)

\* Bytes that are neither ASCII nor well-formed UTF-8.
BadBytes == "<bytes ff fe>"
\* Well-formed UTF-8 that is not ASCII.
NonAscii == "http://example.org/caf<c3 a9>"

EscapedUrl == "http://example.org/?a=1&amp;b=2"

\* str.decode("utf-8") succeeds
decodes_utf8(text) == text # BadBytes
\* str.decode("ascii") succeeds
decodes_ascii(text) == text \notin {BadBytes, NonAscii}

\* HTMLParser.HTMLParser().unescape
unescape(text) ==
    IF text = EscapedUrl THEN "http://example.org/?a=1&b=2" ELSE text

\* "needle in text" and text.startswith(prefix) for the Location values of sharedby.co
VisibliOwnUrl == "http://sharedby.co/share/landing"
VisibliOldUrl == "http://links.visibli.com/share/x"
YahooUrl == "http://yahoo.com/"

Contains(text, needle) ==
    \/ needle = "sharedby" /\ text = VisibliOwnUrl
    \/ needle = "visibli" /\ text = VisibliOldUrl

StartsWith(text, prefix) ==
    \/ prefix = "http://yahoo.com" /\ text = YahooUrl
    \/ prefix = "aff" /\ text = "aff-partner"

\* HTTPService.__init__ and YourlsService.__init__: self._path and self._hostname
path0(s) == IF urlparse(url(s)).path = "" THEN "/" ELSE urlparse(url(s)).path
hostname(s) == urlparse(url(s)).netloc

----------------------------------------------------------------------------
(* What a call returns or raises.                                          *)

Return(v) == [kind |-> "return", cls |-> "", val |-> v]
Raise(cls, msg) == [kind |-> "raise", cls |-> cls, val |-> msg]
\* The call self._http_get(arg) that the method `hook` makes next.
HttpGet(hook, arg) == [kind |-> "get", cls |-> hook, val |-> arg]
NoResult == [kind |-> "none", cls |-> "", val |-> ""]

\* tinyback.exceptions, as Service.fetch documents them.
ServiceExceptions ==
    {"NoRedirectException", "CodeBlockedException", "BlockedException", "ServiceException"}

----------------------------------------------------------------------------
(* Response bodies.                                                        *)

\* The literals the parsers look for with "in".
RateLimitDiv ==
    "<div id=\"main\"><p>Rate limit exceeded - please wait 1 minute before accessing more shortened URLs</p></div>"
DisabledDiv == "<div id=\"disabled\"><h2>Link Disabled</h2>"
PreviewIntro ==
    "<p>The full original link is shown below. <b>Click the link</b> if you'd like to proceed to the destination shown:"
RedirectingTitle == "<title>Redirecting...</title>"
TinyurlLoop == "Error: TinyURL redirects to a TinyURL."
UserAgentNotice == "Undefined index:  HTTP_USER_AGENT"

\* The text a regular expression of the source matches, around group(1) = g.
Frame(pattern, g) ==
    CASE pattern = "Isgd._parse_blocked" ->
           "<p>For reference and to help those fighting spam the original destination of this URL is given below (we strongly recommend you don't visit it since it may damage your PC): -<br />"
           \o g \o "</p><h2>is.gd</h2><p>is.gd is a free service used to shorten long URLs."
      [] pattern = "Isgd._parse_preview" ->
           "<b>Click the link</b> if you'd like to proceed to the destination shown: -<br /><a href=\""
           \o g \o "\" class=\"biglink\">"
      [] pattern = "Owly.unexpected_http_status" ->
           "<a class=\"btn ignore\" href=\"" \o g \o "\" title="
      [] pattern = "Tinyurl._parse_errorhelp" ->
           "<meta http-equiv=\"refresh\" content=\"0;url=" \o g \o "\">"
      [] pattern = "Tinyurl._parse_tinyurl_redirect" ->
           "<p class=\"intro\">The URL you followed redirects back to a TinyURL and therefore we can't directly send you to the site. The URL it redirects to is <a href=\""
           \o g \o "\">"
      [] pattern = "Tinyurl._preview" ->
           "<a id=\"redirecturl\" href=\"" \o g \o "\">Proceed to this site.</a>"
      [] pattern = "Snipurl.unexpected_http_status" ->
           "<p>You clicked on a snipped URL, which will take you to the following looong URL: </p> <div class=\"quote\"><span class=\"quotet\"></span><br/>"
           \o g \o "</div> <br />"
      [] pattern = "BaseVisibliService.unexpected_http_status" ->
           "<iframe id=\"frame\" src=\"" \o g \o "\">"
      [] OTHER -> ""

RECURSIVE Join(_)
Join(texts) == IF texts = <<>> THEN "" ELSE texts[1] \o Join(Tail(texts))

Range(f) == {f[i] : i \in DOMAIN f}

NoJson == [type |-> "none", kind |-> None, status |-> None, longUrl |-> None]

\* A body made of the literals `has`, then the text `pattern` matches with
\* group(1) = g (pattern = None: no regular expression of the source matches).
Page(has, pattern, g) ==
    [text |-> Join(has) \o Frame(pattern, g), has |-> Range(has),
     match |-> pattern, group1 |-> IF pattern = None THEN None ELSE g, json |-> NoJson]

\* A body that is the text itself and holds nothing the parsers look for.
Text(t) == [text |-> t, has |-> {}, match |-> None, group1 |-> None, json |-> NoJson]

\* "needle in data"
In(needle, data) == needle \in data.has

\* re.search(pattern, data): group(1) of the match, or None when there is none.
re_search(pattern, data) == IF data.match = pattern THEN data.group1 ELSE None

\* An absent key of a JSON object.
Absent == "<absent>"

\* A body json.loads reads as `type` ("invalid": it raises ValueError).
Json(t, type, kind, status, longUrl) ==
    [text |-> t, has |-> {}, match |-> None, group1 |-> None,
     json |-> [type |-> type, kind |-> kind, status |-> status, longUrl |-> longUrl]]

EmptyPage == Text("")
OtherPage == Text("<html><body>Something else</body></html>")

\* What group(1) can be: a URL with an HTML entity, nothing, undecodable bytes.
Captures == {EscapedUrl, "", BadBytes}

\* The bodies of the GET that `hook` makes for code c.
Pages(hook, c) ==
    {EmptyPage, OtherPage} \cup
    CASE hook = "Isgd.unexpected_http_status" ->
           {Page(<<RateLimitDiv>>, None, ""), Page(<<RateLimitDiv, DisabledDiv>>, None, ""),
            Page(<<DisabledDiv>>, None, ""), Page(<<PreviewIntro>>, None, ""),
            Page(<<DisabledDiv, PreviewIntro>>, "Isgd._parse_preview", LongUrl)}
           \cup {Page(<<DisabledDiv>>, "Isgd._parse_blocked", g) : g \in Captures}
           \cup {Page(<<PreviewIntro>>, "Isgd._parse_preview", g) : g \in Captures}
      [] hook = "Owly.unexpected_http_status" ->
           {Page(<<>>, hook, g) : g \in Captures}
      [] hook = "Tinyurl._fetch_200" ->
           {Page(<<RedirectingTitle>>, None, ""), Page(<<TinyurlLoop>>, None, ""),
            Page(<<RedirectingTitle, TinyurlLoop>>, "Tinyurl._parse_tinyurl_redirect", EscapedUrl)}
           \cup {Page(<<RedirectingTitle>>, "Tinyurl._parse_errorhelp", urlunparse(u)) :
                    u \in TinyurlErrorhelpUrls(c)}
           \cup {Page(<<TinyurlLoop>>, "Tinyurl._parse_tinyurl_redirect", g) : g \in Captures}
      [] hook = "Tinyurl._preview" ->
           {Page(<<>>, hook, g) : g \in Captures}
      [] hook = "Snipurl.unexpected_http_status" ->
           {Page(<<>>, hook, g) : g \in Captures}
      [] hook = "BaseVisibliService.unexpected_http_status" ->
           {Page(<<UserAgentNotice>>, None, "")}
           \cup {Page(<<>>, hook, g) : g \in Captures \ {""}}
      [] hook = "YourlsService.fetch" ->
           {Text("not found"), Text(LongUrl)}
      [] hook = "Googl.fetch" ->
           {Json("[]", "list", Absent, Absent, Absent),
            Json("1", "int", Absent, Absent, Absent),
            Json("null", "null", Absent, Absent, Absent),
            Json("{\"status\": \"OK\"}", "dict", Absent, "OK", Absent),
            Json("{\"kind\": \"urlshortener#history\", \"status\": \"OK\"}",
                 "dict", "urlshortener#history", "OK", Absent),
            Json("{\"kind\": \"urlshortener#url\"}", "dict", "urlshortener#url", Absent, Absent),
            Json("{\"kind\": \"urlshortener#url\", \"status\": \"REMOVED\"}",
                 "dict", "urlshortener#url", "REMOVED", Absent),
            Json("{\"kind\": \"urlshortener#url\", \"status\": \"OK\", \"longUrl\": \"http://example.org/x\"}",
                 "dict", "urlshortener#url", "OK", LongUrl),
            Json("{\"kind\": \"urlshortener#url\", \"status\": \"OK\", \"longUrl\": \"\"}",
                 "dict", "urlshortener#url", "OK", ""),
            Json("{\"kind\": \"urlshortener#url\", \"status\": \"OK\", \"longUrl\": null}",
                 "dict", "urlshortener#url", "OK", None)}
      [] OTHER -> {}

----------------------------------------------------------------------------
(* The transport's answers.                                                *)

Statuses == {200, 301, 302, 403, 404, 410, 420, 429, 500, 502, 503}

\* The exchange fails with `fail` (httplib.HTTPException or socket.error) in
\* conn.request, conn.getresponse or resp.read.
Failure(fail, stage) ==
    [fail |-> fail, stage |-> stage, status |-> 0, reason |-> "", location |-> None,
     xtiny |-> None, data |-> EmptyPage]

Failures ==
    {Failure(f, st) : f \in {"HTTPException", "socket.error"},
                      st \in {"request", "getresponse", "read"}}

\* A response: its status and reason phrase, the Location and X-tiny
\* headers (None: the header is absent), and the body read.
Response(status, reason, location, xtiny, data) ==
    [fail |-> "none", stage |-> "none", status |-> status, reason |-> reason,
     location |-> location, xtiny |-> xtiny, data |-> data]

Failed(ans) == ans.fail # "none"

\* The Location values a class's code distinguishes, for code c.
Locations(s, c) ==
    {None, "", LongUrl} \cup
    CASE s = "snipurl" -> {"/site/getprivate?snip=" \o c, NonAscii}
      [] s \in {"trim", "trimnew"} -> {"http://tr.im/404"}
      [] s = "pixorial" -> {"http://myhub.pixorial.com/"}
      [] s \in VisibliServices -> {VisibliOwnUrl, VisibliOldUrl, YahooUrl}
      [] s = "bitly" -> {urlunparse(u) : u \in BitlyWarningUrls(c)}
      [] s = "tinyurl" -> {urlunparse(u) : u \in TinyurlClickUrls}
      [] OTHER -> {}

\* The answers to a HEAD.  A header or reason phrase is varied where some
\* code of the class reads it: Location on 301 and 302, the reason phrase
\* on bit.ly's 301, X-tiny on tinyurl.com's 301.  A HEAD has no body.
HeadAnswers(s, c) ==
    Failures \cup
    {Response(st, rs, loc, xt, EmptyPage) :
        st \in Statuses \ {301, 302}, rs \in {"-"}, loc \in {None}, xt \in {None}}
    \cup
    {Response(302, rs, loc, xt, EmptyPage) :
        rs \in {"Found"}, loc \in Locations(s, c), xt \in {None}}
    \cup
    {Response(301, rs, loc, xt, EmptyPage) :
        rs \in (IF s = "bitly" THEN {"Moved", "Moved Permanently", "Found"}
                ELSE {"Moved Permanently"}),
        loc \in Locations(s, c),
        xt \in (IF s = "tinyurl" THEN {None, "aff-partner", "plain"} ELSE {None})}

\* The answers to the GET that `hook` makes.
GetAnswers(hook, c) ==
    Failures \cup
    {Response(st, "-", None, None, d) : st \in Statuses, d \in Pages(hook, c)}

----------------------------------------------------------------------------
(* HTTPService                                                             *)

\* A request as handed to httplib: conn.request(method, path, headers=headers)
Request(method, path, headers) == [method |-> method, path |-> path, headers |-> headers]

\* _http_fetch, lines 135-143: the request for self._path + code
HTTPService_request(s, arg, method) ==
    LET h0 == http_headers(s)
        h1 == IF http_keepalive(s) THEN DictSet(h0, "Connection", "Keep-Alive")
              ELSE DictSet(h0, "Connection", "close")
        h2 == DictSet(h1, "Host", hostname(s))
    IN  Request(method, path0(s) \o arg, h2)

\* httplib on a connection left with an unfinished exchange (never closed
\* after a failure): the next request raises CannotSendRequest.  On a closed
\* connection request() connects first.
httplib_exchange(before, ans) ==
    IF before = "broken" THEN Failure("HTTPException", "request") ELSE ans

\* A faulty ExchangeRaise: "except socket.error" is missing, the error goes
\* on to the caller.
ExchangeRaise_SocketErrorEscapes(ans) ==
    IF ans.fail = "HTTPException"
    THEN Raise("ServiceException", "HTTP exception: " \o ans.stage)
    ELSE Raise("socket.error", ans.stage)

\* The except clauses shared by _http_fetch, YourlsService.fetch and
\* Googl.fetch: what is raised for a failed exchange.
ExchangeRaise(ans) ==
    IF ans.fail = "HTTPException"
    THEN Raise("ServiceException", "HTTP exception: " \o ans.stage)
    ELSE Raise("ServiceException", "Socket error: " \o ans.stage)

\* _http_fetch: raises for a failed exchange; otherwise (resp, resp.read())
HTTPService_http_fetch(ans) ==
    IF Failed(ans) THEN ExchangeRaise(ans) ELSE Return(ans)

\* A faulty _http_fetch: the except clauses do not close the connection,
\* which stays in the middle of the failed exchange.
HTTPService_http_fetch_conn_NoCloseOnError(s, ans, will_close) ==
    IF Failed(ans) THEN "broken"
    ELSE IF ~http_keepalive(s) THEN "closed"
    ELSE IF will_close THEN "closed" ELSE "open"

\* A faulty _http_fetch: http_keepalive is not looked at after the exchange.
HTTPService_http_fetch_conn_KeepsOpen(s, ans, will_close) ==
    IF Failed(ans) THEN "closed"
    ELSE IF will_close THEN "closed" ELSE "open"

\* self._conn after _http_fetch; will_close: the server ends the connection
\* with this response, and httplib closes its side.
HTTPService_http_fetch_conn(s, ans, will_close) ==
    IF Failed(ans) THEN "closed"
    ELSE IF ~http_keepalive(s) THEN "closed"
    ELSE IF will_close THEN "closed" ELSE "open"

\* self._conn after the exchange of YourlsService.fetch or Googl.fetch
Plain_fetch_conn(ans, will_close) ==
    IF Failed(ans) THEN "closed"
    ELSE IF will_close THEN "closed" ELSE "open"

\* "not location"
Falsy(v) == v \in {None, ""}

\* A result that also executes self._conn.close()
Closing(r) == [kind |-> r.kind, cls |-> r.cls, val |-> r.val, close |-> TRUE]
Closes(r) == "close" \in DOMAIN r

----------------------------------------------------------------------------
(* SimpleService and the hooks of its subclasses.  `answers` are the       *)
(* transport's answers to the call's exchanges so far; a method that needs *)
(* one more is suspended as HttpGet.                                       *)

SimpleService_unexpected_http_status(c, resp) ==
    Raise("ServiceException", "Unexpected HTTP status " \o ToString(resp.status))

Isgd_parse_blocked(c, data) ==
    LET group1 == re_search("Isgd._parse_blocked", data) IN
    IF group1 = None
    THEN Raise("ServiceException", "Could not find target URL in 'Link Disabled' page")
    ELSE IF ~decodes_utf8(group1) THEN Raise("UnicodeDecodeError", "")
    ELSE IF unescape(group1) = "" THEN Raise("CodeBlockedException", "Empty URL on preview")
    ELSE Return(unescape(group1))

Isgd_parse_preview(c, data) ==
    LET group1 == re_search("Isgd._parse_preview", data) IN
    IF group1 = None
    THEN Raise("ServiceException", "Could not find target URL in 'Preview' page")
    ELSE IF ~decodes_utf8(group1) THEN Raise("UnicodeDecodeError", "")
    ELSE Return(unescape(group1))

Isgd_unexpected_http_status(c, resp, answers) ==
    IF resp.status # 200 THEN SimpleService_unexpected_http_status(c, resp)
    ELSE IF Len(answers) < 2 THEN HttpGet("Isgd.unexpected_http_status", c)
    ELSE LET got == HTTPService_http_fetch(answers[2])
             resp2 == answers[2]
             data == answers[2].data
         IN  IF got.kind = "raise" THEN got
             ELSE IF resp2.status # 200
             THEN Raise("ServiceException",
                        "HTTP status changed from 200 to " \o ToString(resp2.status)
                        \o " on second request")
             ELSE IF data.text = ""
             THEN Raise("CodeBlockedException", "Empty response on status 200")
             ELSE IF In(RateLimitDiv, data) THEN Raise("BlockedException", "")
             ELSE IF In(DisabledDiv, data) THEN Isgd_parse_blocked(c, data)
             ELSE IF In(PreviewIntro, data) THEN Isgd_parse_preview(c, data)
             ELSE Return(None)

\* A faulty Owly.unexpected_http_status: the status of the GET is not compared.
Owly_unexpected_http_status_NoStatusCheck(c, resp, answers) ==
    IF resp.status # 200 THEN SimpleService_unexpected_http_status(c, resp)
    ELSE IF Len(answers) < 2 THEN HttpGet("Owly.unexpected_http_status", c)
    ELSE LET got == HTTPService_http_fetch(answers[2])
             group1 == re_search("Owly.unexpected_http_status", answers[2].data)
         IN  IF got.kind = "raise" THEN got
             ELSE IF group1 = None
             THEN Raise("ServiceException", "Could not find target URL in safety warning")
             ELSE IF ~decodes_utf8(group1) THEN Raise("UnicodeDecodeError", "")
             ELSE Return(unescape(group1))

Owly_unexpected_http_status(c, resp, answers) ==
    IF resp.status # 200 THEN SimpleService_unexpected_http_status(c, resp)
    ELSE IF Len(answers) < 2 THEN HttpGet("Owly.unexpected_http_status", c)
    ELSE LET got == HTTPService_http_fetch(answers[2])
             resp2 == answers[2]
             group1 == re_search("Owly.unexpected_http_status", answers[2].data)
         IN  IF got.kind = "raise" THEN got
             ELSE IF resp2.status # 200
             THEN Raise("ServiceException",
                        "HTTP status changed from 200 to " \o ToString(resp2.status)
                        \o " on second request")
             ELSE IF group1 = None
             THEN Raise("ServiceException", "Could not find target URL in safety warning")
             ELSE IF ~decodes_utf8(group1) THEN Raise("UnicodeDecodeError", "")
             ELSE Return(unescape(group1))

Snipurl_unexpected_http_status(c, resp, answers) ==
    IF resp.status # 500 THEN SimpleService_unexpected_http_status(c, resp)
    ELSE IF Len(answers) < 2 THEN HttpGet("Snipurl.unexpected_http_status", c)
    ELSE LET got == HTTPService_http_fetch(answers[2])
             resp2 == answers[2]
             group1 == re_search("Snipurl.unexpected_http_status", answers[2].data)
         IN  IF got.kind = "raise" THEN got
             ELSE IF resp2.status # 500
             THEN Raise("ServiceException",
                        "HTTP status changed from 500 to " \o ToString(resp2.status)
                        \o " on second request")
             ELSE IF group1 = None
             THEN Raise("ServiceException", "Could not find target URL on preview page")
             ELSE IF ~decodes_utf8(group1) THEN Raise("UnicodeDecodeError", "")
             ELSE Return(unescape(group1))

BaseVisibliService_unexpected_http_status(c, resp, answers) ==
    IF resp.status = 302
    THEN LET location == resp.location IN
         IF ~Falsy(location)
            /\ (Contains(location, "sharedby") \/ Contains(location, "visibli"))
         THEN Raise("NoRedirectException", "")
         ELSE IF ~Falsy(location) /\ StartsWith(location, "http://yahoo.com")
         THEN Raise("BlockedException", "Banned (location=" \o location \o ")")
         ELSE Return(location)
    ELSE IF resp.status # 200
    \* super(BaseVisbliService, self): no such name
    THEN Raise("NameError", "global name 'BaseVisbliService' is not defined")
    ELSE IF Len(answers) < 2 THEN HttpGet("BaseVisibliService.unexpected_http_status", c)
    ELSE LET got == HTTPService_http_fetch(answers[2])
             resp2 == answers[2]
             data == answers[2].data
             group1 == re_search("BaseVisibliService.unexpected_http_status", data)
         IN  IF got.kind = "raise" THEN got
             ELSE IF resp2.status # 200
             THEN Raise("ServiceException",
                        "HTTP status changed from 200 to " \o ToString(resp2.status)
                        \o " on second request")
             ELSE IF group1 = None
             THEN IF In(UserAgentNotice, data)
                  THEN Raise("ServiceException", "Website broken about user-agent")
                  ELSE Raise("ServiceException", "No iframe url found")
             ELSE IF ~decodes_utf8(group1) THEN Raise("UnicodeDecodeError", "")
             ELSE Return(unescape(group1))

\* self.unexpected_http_status(code, resp) on an instance of the class of s
unexpected_http_status(s, c, resp, answers) ==
    CASE s = "isgd" -> Isgd_unexpected_http_status(c, resp, answers)
      [] s = "owly" -> Owly_unexpected_http_status(c, resp, answers)
      [] s = "snipurl" -> Snipurl_unexpected_http_status(c, resp, answers)
      [] s \in VisibliServices -> BaseVisibliService_unexpected_http_status(c, resp, answers)
      [] OTHER -> SimpleService_unexpected_http_status(c, resp)

\* A faulty SimpleService.fetch: a redirect without Location counts as no redirect.
SimpleService_fetch_NoLocationIsNoRedirect(s, c, answers) ==
    LET head == HTTPService_http_fetch(answers[1])
        resp == answers[1]
    IN  IF head.kind = "raise" THEN head
        ELSE IF resp.status \in http_status_redirect(s)
        THEN IF Falsy(resp.location)
             THEN Raise("NoRedirectException", "")
             ELSE Return(resp.location)
        ELSE IF resp.status \in http_status_no_redirect(s)
        THEN Raise("NoRedirectException", "")
        ELSE IF resp.status \in http_status_code_blocked(s)
        THEN Raise("CodeBlockedException", "")
        ELSE IF resp.status \in http_status_blocked(s)
        THEN Raise("BlockedException", "")
        ELSE unexpected_http_status(s, c, resp, answers)

\* A faulty SimpleService.fetch: the code-blocked set is looked up before
\* the no-redirect set.
SimpleService_fetch_CodeBlockedFirst(s, c, answers) ==
    LET head == HTTPService_http_fetch(answers[1])
        resp == answers[1]
    IN  IF head.kind = "raise" THEN head
        ELSE IF resp.status \in http_status_redirect(s)
        THEN IF Falsy(resp.location)
             THEN Raise("ServiceException", "No Location header after HTTP status 301")
             ELSE Return(resp.location)
        ELSE IF resp.status \in http_status_code_blocked(s)
        THEN Raise("CodeBlockedException", "")
        ELSE IF resp.status \in http_status_no_redirect(s)
        THEN Raise("NoRedirectException", "")
        ELSE IF resp.status \in http_status_blocked(s)
        THEN Raise("BlockedException", "")
        ELSE unexpected_http_status(s, c, resp, answers)

SimpleService_fetch(s, c, answers) ==
    LET head == HTTPService_http_fetch(answers[1])
        resp == answers[1]
    IN  IF head.kind = "raise" THEN head
        ELSE IF resp.status \in http_status_redirect(s)
        THEN IF Falsy(resp.location)
             THEN Raise("ServiceException", "No Location header after HTTP status 301")
             ELSE Return(resp.location)
        ELSE IF resp.status \in http_status_no_redirect(s)
        THEN Raise("NoRedirectException", "")
        ELSE IF resp.status \in http_status_code_blocked(s)
        THEN Raise("CodeBlockedException", "")
        ELSE IF resp.status \in http_status_blocked(s)
        THEN Raise("BlockedException", "")
        ELSE unexpected_http_status(s, c, resp, answers)

----------------------------------------------------------------------------
(* The classes with a fetch of their own.                                  *)

\* urllib.urlencode({"action": "expand", "shorturl": code, "format": "simple"})
urlencode(c) == "action=expand&shorturl=" \o c \o "&format=simple"

\* conn.request("GET", ...) of YourlsService.fetch: no headers argument
YourlsService_request(s, c) == Request("GET", path0(s) \o "?" \o urlencode(c), {})

\* A faulty YourlsService.fetch: the status is not looked at.
YourlsService_fetch_AnyStatus(c, answers) ==
    LET data == answers[1].data
    IN  IF Failed(answers[1]) THEN ExchangeRaise(answers[1])
        ELSE IF data.text = "not found" THEN Raise("NoRedirectException", "")
        ELSE Return(data.text)

YourlsService_fetch(c, answers) ==
    LET resp == answers[1]
        data == answers[1].data
    IN  IF Failed(answers[1]) THEN ExchangeRaise(answers[1])
        ELSE IF resp.status = 200
        THEN IF data.text = "not found" THEN Raise("NoRedirectException", "")
             ELSE Return(data.text)
        ELSE Raise("ServiceException", "Unexpected HTTP status " \o ToString(resp.status))

\* _parse_warning_url without the comparison of the hash with the code
Bitly_parse_warning_url_NoHashCheck(c, location) ==
    LET u == urlparse(location)
        urls == parse_qs(u.pairs, "url")
        hashes == parse_qs(u.pairs, "hash")
    IN  IF u.scheme # "http" \/ u.netloc # "bit.ly" \/ u.path # "/a/warning"
        THEN Raise("ServiceException", "Unexpected Location header after HTTP status 302")
        ELSE IF ~(Len(urls) = 1) \/ ~(Len(hashes) = 1)
        THEN Raise("ServiceException", "Unexpected Location header after HTTP status 302")
        ELSE Return(urls[1])

Bitly_parse_warning_url(c, location) ==
    LET u == urlparse(location)
        urls == parse_qs(u.pairs, "url")
        hashes == parse_qs(u.pairs, "hash")
    IN  IF u.scheme # "http" \/ u.netloc # "bit.ly" \/ u.path # "/a/warning"
        THEN Raise("ServiceException", "Unexpected Location header after HTTP status 302")
        ELSE IF ~(Len(urls) = 1) \/ ~(Len(hashes) = 1)
        THEN Raise("ServiceException", "Unexpected Location header after HTTP status 302")
        ELSE IF hashes[1] # c
        THEN Raise("ServiceException", "Hash mismatch for HTTP status 302")
        ELSE Return(urls[1])

Bitly_fetch(c, answers) ==
    LET head == HTTPService_http_fetch(answers[1])
        resp == answers[1]
        location == answers[1].location
    IN  IF head.kind = "raise" THEN head
        ELSE IF resp.status = 301
        THEN IF Falsy(location)
             THEN Raise("ServiceException", "No Location header after HTTP status 301")
             ELSE IF resp.reason = "Moved" THEN Return(location)
             ELSE IF resp.reason = "Moved Permanently"
             THEN Closing(Raise("CodeBlockedException", ""))
             ELSE Raise("ServiceException",
                        "Unknown HTTP reason " \o resp.reason \o " after HTTP status 301")
        ELSE IF resp.status = 302
        THEN IF Falsy(location)
             THEN Raise("ServiceException", "No Location header after HTTP status 302")
             ELSE Bitly_parse_warning_url(c, location)
        ELSE IF resp.status = 403 THEN Raise("BlockedException", "")
        ELSE IF resp.status = 404 THEN Raise("NoRedirectException", "")
        ELSE IF resp.status = 410 THEN Raise("CodeBlockedException", "")
        ELSE Raise("ServiceException", "Unknown HTTP status " \o ToString(resp.status))

Tinyurl_parse_errorhelp(c, data) ==
    LET group1 == re_search("Tinyurl._parse_errorhelp", data)
        u == urlparse(group1)
        urls == parse_qs(u.pairs, "url")
        paths == parse_qs(u.pairs, "path")
    IN  IF group1 = None
        THEN Raise("ServiceException", "No redirect on \"errorhelp\" page on HTTP status 200")
        ELSE IF u.scheme # "http" \/ u.netloc # "tinyurl.com" \/ u.path # "/errorb.php"
        THEN Raise("ServiceException",
                   "Unexpected redirect on \"errorhelp\" page  on HTTP status 200")
        ELSE IF ~(Len(urls) = 1) \/ ~(Len(paths) = 1)
        THEN Raise("ServiceException",
                   "Unexpected redirect on \"errorhelp\" page  on HTTP status 200")
        ELSE IF paths[1] # "/" \o c
        THEN Raise("ServiceException", "Code mismatch on \"errorhelp\" on HTTP status 200")
        ELSE Return(urls[1])

Tinyurl_parse_tinyurl_redirect(data) ==
    LET group1 == re_search("Tinyurl._parse_tinyurl_redirect", data) IN
    IF group1 = None
    THEN Raise("ServiceException",
               "No redirect on \"tinyurl redirect\" page on HTTP status 200")
    ELSE IF ~decodes_utf8(group1) THEN Raise("UnicodeDecodeError", "")
    ELSE Return(unescape(group1))

Tinyurl_fetch_200(c, answers) ==
    IF Len(answers) < 2 THEN HttpGet("Tinyurl._fetch_200", c)
    ELSE LET got == HTTPService_http_fetch(answers[2])
             resp == answers[2]
             data == answers[2].data
         IN  IF got.kind = "raise" THEN got
             ELSE IF resp.status # 200
             THEN Raise("ServiceException",
                        "HTTP status changed from 200 to " \o ToString(resp.status)
                        \o " on second request")
             ELSE IF In(RedirectingTitle, data) THEN Tinyurl_parse_errorhelp(c, data)
             ELSE IF In(TinyurlLoop, data) THEN Tinyurl_parse_tinyurl_redirect(data)
             ELSE Raise("ServiceException", "Unexpected response on status 200")

Tinyurl_scrub_url(c, location) ==
    LET parsed_url == urlparse(location)
        out == parse_qs(parsed_url.pairs, "out")
    IN  IF parsed_url.netloc = "redirect.tinyurl.com" /\ parsed_url.path = "/api/click"
        THEN IF out = <<>> THEN Raise("KeyError", "out")
             ELSE Return(out[1])
        ELSE Return(location)

Tinyurl_preview(c, affiliate_url, answers) ==
    IF Len(answers) < 2 THEN HttpGet("Tinyurl._preview", "preview.php?num=" \o c)
    ELSE LET got == HTTPService_http_fetch(answers[2])
             resp == answers[2]
             group1 == re_search("Tinyurl._preview", answers[2].data)
         IN  IF got.kind = "raise" THEN got
             ELSE IF resp.status # 200
             THEN Raise("ServiceException",
                        "Unexpected HTTP status " \o ToString(resp.status)
                        \o " on preview page")
             ELSE IF group1 = None
             THEN Raise("ServiceException", "No redirect on preview page")
             ELSE IF ~decodes_utf8(group1) THEN Raise("UnicodeDecodeError", "")
             ELSE IF group1 = "" THEN Tinyurl_scrub_url(c, affiliate_url)
             ELSE Return(unescape(group1))

Tinyurl_fetch(c, answers) ==
    LET head == HTTPService_http_fetch(answers[1])
        resp == answers[1]
        location == answers[1].location
        tiny == answers[1].xtiny
    IN  IF head.kind = "raise" THEN head
        ELSE IF resp.status = 200 THEN Tinyurl_fetch_200(c, answers)
        ELSE IF resp.status = 301
        THEN IF Falsy(location)
             THEN Raise("CodeBlockedException", "No Location header after HTTP status 301")
             ELSE IF ~Falsy(tiny) /\ StartsWith(tiny, "aff")
             THEN Tinyurl_preview(c, location, answers)
             ELSE Return(location)
        ELSE IF resp.status = 302 THEN Raise("CodeBlockedException", "")
        ELSE IF resp.status = 404 THEN Raise("NoRedirectException", "")
        ELSE IF resp.status = 500
        THEN Closing(Raise("ServiceException", "HTTP status 500"))
        ELSE Raise("ServiceException", "Unknown HTTP status " \o ToString(resp.status))

Snipurl_fetch(c, answers) ==
    LET location == SimpleService_fetch("snipurl", c, answers) IN
    IF location.kind # "return" THEN location
    ELSE IF location.val = None THEN Raise("AttributeError", "decode")
    ELSE IF decodes_ascii(location.val)
            /\ location.val = "/site/getprivate?snip=" \o c
    THEN Raise("CodeBlockedException", "Private key required")
    ELSE location

\* conn.request("GET", ...) of Googl.fetch
Googl_request(c) ==
    Request("GET", "/urlshortener/v1/url?shortUrl=http://goo.gl/" \o c, {})

Googl_parse_json(data) ==
    LET json == data.json IN
    IF json.type \in {"invalid", "none"}
    THEN Raise("ServiceException", "Could not decode response")
    \* "kind" in data, for data a number or None
    ELSE IF json.type \in {"int", "null"} THEN Raise("TypeError", "not iterable")
    ELSE IF json.kind = Absent \/ json.kind # "urlshortener#url"
    THEN Raise("ServiceException", "No/bad type given")
    ELSE IF json.status = Absent THEN Raise("ServiceException", "No status given")
    ELSE IF json.longUrl = Absent
    THEN Raise("CodeBlockedException", "Status: " \o json.status)
    ELSE Return(json.longUrl)

Googl_fetch(c, answers) ==
    LET resp == answers[1]
        data == answers[1].data
    IN  IF Failed(answers[1]) THEN ExchangeRaise(answers[1])
        ELSE IF resp.status = 200 THEN Googl_parse_json(data)
        ELSE IF resp.status = 403 THEN Raise("BlockedException", "")
        ELSE IF resp.status = 404 THEN Raise("NoRedirectException", "")
        ELSE Raise("ServiceException", "Unexpected HTTP status " \o ToString(resp.status))

\* Trimnew.fetch without the test of lines 678-679
Trimnew_fetch_NoOwnPageCheck(c, answers) ==
    IF c = "500" THEN Raise("CodeBlockedException", "")
    ELSE SimpleService_fetch("trimnew", c, answers)

Trimnew_fetch(c, answers) ==
    IF c = "500" THEN Raise("CodeBlockedException", "")
    ELSE LET found == SimpleService_fetch("trimnew", c, answers) IN
         IF found.kind # "return" THEN found
         ELSE IF found.val = "http://tr.im/404" THEN Raise("NoRedirectException", "")
         ELSE found

Pixorial_fetch(c, answers) ==
    LET head == HTTPService_http_fetch(answers[1])
        resp == answers[1]
        location == answers[1].location
    IN  IF head.kind = "raise" THEN head
        ELSE IF resp.status \in http_status_redirect("pixorial")
        THEN IF location = "http://myhub.pixorial.com/"
             THEN Raise("NoRedirectException", "Redirected to home page")
             ELSE IF Falsy(location)
             THEN Raise("ServiceException", "No Location header after HTTP status 301")
             ELSE Return(location)
        ELSE IF resp.status \in http_status_no_redirect("pixorial")
        THEN Raise("NoRedirectException", "")
        ELSE IF resp.status \in http_status_code_blocked("pixorial")
        THEN Raise("CodeBlockedException", "")
        ELSE IF resp.status \in http_status_blocked("pixorial")
        THEN Raise("BlockedException", "")
        ELSE unexpected_http_status("pixorial", c, resp, answers)

Trim_fetch(c, answers) ==
    LET head == HTTPService_http_fetch(answers[1])
        resp == answers[1]
        location == answers[1].location
    IN  IF head.kind = "raise" THEN head
        ELSE IF resp.status \in http_status_redirect("trim")
        THEN IF c # "404" /\ location = "http://tr.im/404"
             THEN Raise("NoRedirectException", "Redirected to 404 page")
             ELSE IF Falsy(location)
             THEN Raise("ServiceException", "No Location header after HTTP status 301")
             ELSE Return(location)
        ELSE IF resp.status \in http_status_no_redirect("trim")
        THEN Raise("NoRedirectException", "")
        ELSE IF resp.status \in http_status_code_blocked("trim")
        THEN Raise("CodeBlockedException", "")
        ELSE IF resp.status \in http_status_blocked("trim")
        THEN Raise("BlockedException", "")
        ELSE unexpected_http_status("trim", c, resp, answers)

\* self.fetch(code) on an instance of the class of s, as far as `answers` go
fetch(s, c, answers) ==
    CASE s = "bitly" -> Bitly_fetch(c, answers)
      [] s = "tinyurl" -> Tinyurl_fetch(c, answers)
      [] s = "snipurl" -> Snipurl_fetch(c, answers)
      [] s = "googl" -> Googl_fetch(c, answers)
      [] s = "trimnew" -> Trimnew_fetch(c, answers)
      [] s = "pixorial" -> Pixorial_fetch(c, answers)
      [] s = "trim" -> Trim_fetch(c, answers)
      [] s \in YourlsServices -> YourlsService_fetch(c, answers)
      [] OTHER -> SimpleService_fetch(s, c, answers)

\* Trimnew.fetch, lines 674-677, with the HEAD made before the code is looked at
FirstExchange_Always(s, c) == TRUE

\* Whether fetch(code) starts with an exchange at all
FirstExchange(s, c) == ~(s = "trimnew" /\ c = "500")

\* The request of the call's first exchange
FirstRequest(s, c) ==
    CASE s \in YourlsServices -> YourlsService_request(s, c)
      [] s = "googl" -> Googl_request(c)
      [] OTHER -> HTTPService_request(s, c, "HEAD")

\* The answers the transport can give to the first exchange
FirstAnswers(s, c) ==
    CASE s \in YourlsServices -> GetAnswers("YourlsService.fetch", c)
      [] s = "googl" -> GetAnswers("Googl.fetch", c)
      [] OTHER -> HeadAnswers(s, c)

\* The value SimpleService.fetch gives in a call of fetch(c), for the
\* classes whose fetch is or calls SimpleService.fetch
Dispatched(s, c, answers) ==
    IF s \in SimpleServices \ {"pixorial", "trim"} /\ FirstExchange(s, c)
    THEN SimpleService_fetch(s, c, answers)
    ELSE NoResult

----------------------------------------------------------------------------
(* The state machine: one instance, one fetch call at a time.              *)

\* The answers the stubbed transport has already given to req
StubAnswers(req) == {e.ans : e \in {x \in stub : x.req = req}}

\* The answers the transport can give to req, out of `all`: any of them, or
\* under a stubbed transport the one it gave to the same request before.
Offered(req, all) ==
    IF mode = "stub" /\ StubAnswers(req) # {} THEN StubAnswers(req) ELSE all

Record(req, ans) == IF mode = "stub" THEN stub \cup {[req |-> req, ans |-> ans]} ELSE stub

\* The first result of each code, under a stubbed transport
Remember(c, r) ==
    IF mode = "stub" /\ r.kind # "get" /\ ~(\E e \in first : e.code = c)
    THEN first \cup {[code |-> c, result |-> r]}
    ELSE first

\* self._conn after the exchange that got `ans`
ConnAfter(s, ans, will_close) ==
    IF s \in HTTPServices THEN HTTPService_http_fetch_conn(s, ans, will_close)
    ELSE Plain_fetch_conn(ans, will_close)

\* The end of a step of fetch(c) that has run as far as r
Continue(c, r, log, after) ==
    /\ code' = c
    /\ exchanges' = log
    /\ conn' = IF Closes(r) THEN "closed" ELSE after
    /\ pc' = IF r.kind = "get" THEN "get" ELSE "done"
    /\ result' = IF r.kind = "get" THEN NoResult ELSE r
    /\ dispatched' = Dispatched(svc, c, [i \in DOMAIN log |-> log[i].ans])
    /\ first' = Remember(c, r)
    /\ calls' = IF mode = "stub" /\ r.kind # "get" /\ calls < MaxCalls
                THEN calls + 1 ELSE calls
    /\ UNCHANGED <<svc, mode, heap, returned>>

\* Under a stubbed transport the instance is called with one code, again and again.
Repeats(c) == mode = "stub" => (pc = "idle" \/ c = code)

\* fetch(c) up to its return, its raise, or the end of its HEAD when a GET follows
Fetch(c) ==
    /\ pc \in {"idle", "done"}
    /\ Repeats(c)
    /\ IF FirstExchange(svc, c)
       THEN LET req == FirstRequest(svc, c) IN
            \E ans \in Offered(req, FirstAnswers(svc, c)), will_close \in BOOLEAN :
                LET eff == httplib_exchange(conn, ans) IN
                /\ stub' = Record(req, ans)
                /\ Continue(c, fetch(svc, c, <<eff>>), <<[req |-> req, ans |-> eff]>>,
                            ConnAfter(svc, eff, will_close))
       ELSE /\ stub' = stub
            /\ Continue(c, fetch(svc, c, <<>>), <<>>, conn)

\* The GET of the call in progress, and the rest of fetch
Get ==
    /\ pc = "get"
    /\ LET pending == fetch(svc, code, <<exchanges[1].ans>>)
           req == HTTPService_request(svc, pending.val, "GET")
       IN  \E ans \in Offered(req, GetAnswers(pending.cls, code)), will_close \in BOOLEAN :
               LET eff == httplib_exchange(conn, ans) IN
               /\ stub' = Record(req, ans)
               /\ Continue(code, fetch(svc, code, <<exchanges[1].ans, eff>>),
                           Append(exchanges, [req |-> req, ans |-> eff]),
                           ConnAfter(svc, eff, will_close))

\* The names factory is called with: the registry's keys and three others
Names == Services \cup {"", "Bitly", "nosuch"}

\* _factory_map.get(name)
factory_map_get(name) == IF name \in DOMAIN factory_map THEN factory_map[name] ELSE None

\* socket.getaddrinfo(self._hostname, self._port or 80) and the filter of
\* lines 115-117: it raises socket.gaierror, or no address is kept, or one is
AddrInfos ==
    { [fail |-> "socket.gaierror", addr |-> <<>>],
      [fail |-> None, addr |-> <<>>],
      [fail |-> None, addr |-> <<"192.0.2.1">>] }

\* An httplib connection object: klass(host)
Connection(klass, host) == [type |-> klass, host |-> host, _conn |-> 0]

\* A service object whose self._conn is the object at `c`
Instance(cls, c) == [type |-> cls, host |-> "", _conn |-> c]

\* HTTPService.__init__: the connection it makes, or what it raises
HTTPService_init(s, info) ==
    LET parsed_url == urlparse(url(s)) IN
    IF parsed_url.scheme \notin {"http", "https"}
    THEN Raise("ValueError", "Unknown scheme " \o parsed_url.scheme)
    ELSE IF info.fail # None THEN Raise(info.fail, "")
    ELSE IF Len(info.addr) = 0
    THEN Raise("ValueError", "Unknown host " \o parsed_url.netloc)
    ELSE Return(Connection(IF parsed_url.scheme = "http" THEN "HTTPConnection"
                           ELSE "HTTPSConnection", info.addr[1]))

\* YourlsService.__init__: no address is looked up
YourlsService_init(s) ==
    LET parsed_url == urlparse(url(s)) IN
    IF parsed_url.scheme \notin {"http", "https"}
    THEN Raise("ValueError", "Unknown scheme " \o parsed_url.scheme)
    ELSE Return(Connection(IF parsed_url.scheme = "http" THEN "HTTPConnection"
                           ELSE "HTTPSConnection", parsed_url.netloc))

\* Googl.__init__
Googl_init == Return(Connection("HTTPSConnection", "www.googleapis.com"))

\* service(): the __init__ of the class registered under name
init(name, info) ==
    CASE name \in YourlsServices -> YourlsService_init(name)
      [] name = "googl" -> Googl_init
      [] OTHER -> HTTPService_init(name, info)

\* factory with a cache: an instance of the class, once made, is returned again
factory_call_Cached(h, name, info) ==
    LET service == factory_map_get(name)
        made == init(name, info)
        old == {i \in DOMAIN h : h[i].type = service}
    IN  IF service = None
        THEN [heap |-> h, out |-> Raise("ValueError", "Unknown service " \o name)]
        ELSE IF old # {} THEN [heap |-> h, out |-> Return(CHOOSE i \in old : TRUE)]
        ELSE IF made.kind = "raise" THEN [heap |-> h, out |-> made]
        ELSE [heap |-> h \o <<Instance(service, Len(h) + 2), made.val>>,
              out |-> Return(Len(h) + 1)]

\* factory(name) with the objects of h alive: what it returns or raises and
\* the objects alive after it.  A new instance takes the next identity and
\* its connection the one after.
factory_call(h, name, info) ==
    LET service == factory_map_get(name)
        made == init(name, info)
    IN  IF service = None
        THEN [heap |-> h, out |-> Raise("ValueError", "Unknown service " \o name)]
        ELSE IF made.kind = "raise" THEN [heap |-> h, out |-> made]
        ELSE [heap |-> h \o <<Instance(service, Len(h) + 2), made.val>>,
              out |-> Return(Len(h) + 1)]

\* A call of factory(name)
factory(name) ==
    /\ Len(heap) < 2 * MaxInstances
    /\ \E info \in AddrInfos :
          LET call == factory_call(heap, name, info) IN
          /\ heap' = call.heap
          /\ returned' = [name |-> name, out |-> call.out]
    /\ UNCHANGED <<svc, conn, pc, code, exchanges, dispatched, result, mode, stub,
                   first, calls>>

\* factory(name) has returned an instance: its connection is not yet made
Constructed(name, m) ==
    /\ \E info \in AddrInfos :
          LET call == factory_call(<<>>, name, info) IN
          /\ call.out.kind = "return"
          /\ heap = call.heap
          /\ returned = [name |-> name, out |-> call.out]
    /\ svc = name
    /\ conn = "closed"
    /\ pc = "idle"
    /\ code = ""
    /\ exchanges = <<>>
    /\ dispatched = NoResult
    /\ result = NoResult
    /\ mode = m
    /\ stub = {}
    /\ first = {}
    /\ calls = 0

Init == \E name \in Services : Constructed(name, "free")

InitStub == \E name \in Services : Constructed(name, "stub")

Next == (\E c \in Codes : Fetch(c)) \/ Get

Spec == Init /\ [][Next]_vars

SpecStub == InitStub /\ [][Next]_vars

\* The module is loaded and factory was not yet called
InitFactory ==
    /\ heap = <<>>
    /\ returned = [name |-> None, out |-> NoResult]
    /\ svc = None
    /\ conn = "closed"
    /\ pc = "idle"
    /\ code = ""
    /\ exchanges = <<>>
    /\ dispatched = NoResult
    /\ result = NoResult
    /\ mode = "free"
    /\ stub = {}
    /\ first = {}
    /\ calls = 0

NextFactory == \E name \in Names : factory(name)

SpecFactory == InitFactory /\ [][NextFactory]_vars

----------------------------------------------------------------------------
(* Properties.                                                             *)

Done == pc = "done"

\* The answer to the call's HEAD (its first exchange)
HeadAnswer == exchanges[1].ans

\* The call's first exchange got a response
Answered == exchanges # <<>> /\ ~Failed(HeadAnswer)

IsServiceError(r) == r.kind = "raise" /\ r.cls = "ServiceException"

\* The classes whose fetch is SimpleService.fetch or calls it
DispatcherServices == SimpleServices \ {"pixorial", "trim"}

\* C1: every fetch call ends by returning a long-URL string or by raising
\* NoRedirectException, CodeBlockedException, BlockedException or
\* ServiceException: it never returns None and never raises anything else.
C1_OneOutcomePerCall ==
    Done =>
        \/ result.kind = "return" /\ result.val # None
        \/ result.kind = "raise" /\ result.cls \in ServiceExceptions

\* C2: in SimpleService.fetch, a HEAD status of the redirect-ok set gives
\* the Location header's value unchanged when it is non-empty, and
\* ServiceException (never NoRedirectException) when it is absent or empty.
C2_RedirectGivesLocation ==
    (svc \in DispatcherServices /\ Answered /\ HeadAnswer.status \in http_status_redirect(svc)) =>
        /\ Done
        /\ IF Falsy(HeadAnswer.location)
           THEN IsServiceError(dispatched) /\ IsServiceError(result)
           ELSE dispatched = Return(HeadAnswer.location)

C2_Witness ==
    /\ svc = "wpme" /\ Done /\ Answered
    /\ HeadAnswer.status = 302 /\ HeadAnswer.location = LongUrl
    /\ dispatched = Return(LongUrl) /\ result = Return(LongUrl)

\* The table of SimpleService itself
DefaultTable(s) ==
    /\ http_status_redirect(s) = {301, 302}
    /\ http_status_no_redirect(s) = {404}
    /\ http_status_code_blocked(s) = {410}
    /\ http_status_blocked(s) = {403, 420, 429}

\* SimpleService.fetch raised cls after one exchange, and so did fetch
RaisedAfterHead(cls) ==
    /\ Done /\ Len(exchanges) = 1
    /\ dispatched = Raise(cls, "") /\ result = Raise(cls, "")

\* C3: SimpleService.fetch classifies the HEAD status by the first of
\* redirect-ok, no-redirect, code-blocked, service-blocked that holds it, with
\* no second exchange; under the default table 404 is NoRedirect, 410 is
\* CodeBlocked and 403, 420, 429 are ServiceBlocked.
C3_FirstSetDecides ==
    (svc \in DispatcherServices /\ Answered) =>
        LET st == HeadAnswer.status
            R == http_status_redirect(svc)
            N == http_status_no_redirect(svc)
            C == http_status_code_blocked(svc)
            B == http_status_blocked(svc)
        IN  /\ (st \in N \ R) => RaisedAfterHead("NoRedirectException")
            /\ (st \in C \ (R \cup N)) => RaisedAfterHead("CodeBlockedException")
            /\ (st \in B \ (R \cup N \cup C)) => RaisedAfterHead("BlockedException")
            /\ DefaultTable(svc) =>
                /\ st = 404 => RaisedAfterHead("NoRedirectException")
                /\ st = 410 => RaisedAfterHead("CodeBlockedException")
                /\ st \in {403, 420, 429} => RaisedAfterHead("BlockedException")

\* snipurl.com's 410 is in its no-redirect set and in its code-blocked set
C3_Witness ==
    /\ svc = "snipurl" /\ Answered /\ HeadAnswer.status = 410
    /\ HeadAnswer.status \in http_status_no_redirect(svc) \cap http_status_code_blocked(svc)
    /\ RaisedAfterHead("NoRedirectException")

\* The HEAD statuses the class's unexpected_http_status treats specially
HookStatuses(s) ==
    CASE s \in {"isgd", "owly"} -> {200}
      [] s = "snipurl" -> {500}
      [] s \in VisibliServices -> {200, 302}
      [] OTHER -> {}

InNoSet(s, st) ==
    st \notin http_status_redirect(s) \cup http_status_no_redirect(s)
              \cup http_status_code_blocked(s) \cup http_status_blocked(s)

\* C4: on a class built on SimpleService, a HEAD status in none of the four
\* sets and not special to the class's hook ends the call in
\* ServiceException("Unexpected HTTP status <n>") after that one exchange.
C4_UnexpectedStatusIsServiceError ==
    (svc \in SimpleServices /\ Answered /\ InNoSet(svc, HeadAnswer.status)
     /\ HeadAnswer.status \notin HookStatuses(svc)) =>
        /\ Done /\ Len(exchanges) = 1
        /\ result = Raise("ServiceException",
                          "Unexpected HTTP status " \o ToString(HeadAnswer.status))

\* Both exchanges of the call got a response
TwoResponses == Len(exchanges) = 2 /\ ~Failed(exchanges[1].ans) /\ ~Failed(exchanges[2].ans)

\* C5 as stated: whenever the GET's status differs from the HEAD's status,
\* fetch ends in ServiceException.
C5_GetStatusDiffers ==
    (TwoResponses /\ exchanges[2].ans.status # exchanges[1].ans.status) =>
        Done /\ IsServiceError(result)

\* C5 as amended: when the GET fetches the path of the HEAD again and its
\* status differs from the HEAD's, fetch ends in ServiceException("HTTP status
\* changed ..."); when the GET fetches tinyurl.com's preview page (after a
\* 301 HEAD) and its status is not 200, fetch ends in ServiceException.
C5_RefetchStatusDiffers ==
    TwoResponses =>
        LET st1 == exchanges[1].ans.status
            st2 == exchanges[2].ans.status
        IN  IF exchanges[2].req.path = exchanges[1].req.path
            THEN st2 # st1 =>
                    /\ Done
                    /\ result = Raise("ServiceException",
                                      "HTTP status changed from " \o ToString(st1) \o " to "
                                      \o ToString(st2) \o " on second request")
            ELSE /\ svc = "tinyurl" /\ st1 = 301
                 /\ exchanges[2].req.path = path0(svc) \o "preview.php?num=" \o code
                 /\ st2 # 200 =>
                        /\ Done
                        /\ result = Raise("ServiceException",
                                          "Unexpected HTTP status " \o ToString(st2)
                                          \o " on preview page")

\* The body of the GET would have parsed into a URL
C5_Witness ==
    /\ svc = "owly" /\ Done /\ TwoResponses
    /\ exchanges[1].ans.status = 200 /\ exchanges[2].ans.status = 404
    /\ exchanges[2].ans.data.group1 = EscapedUrl
    /\ IsServiceError(result)

\* C6: YourlsService.fetch makes one GET to the API path; 200 with the body
\* "not found" is NoRedirectException, 200 with any other body returns the
\* body as it is, any other status is ServiceException.
C6_YourlsClassifies ==
    (svc \in YourlsServices /\ pc # "idle") =>
        /\ Done /\ Len(exchanges) = 1
        /\ exchanges[1].req.method = "GET"
        /\ exchanges[1].req.path
             = urlparse(url(svc)).path \o "?action=expand&shorturl=" \o code \o "&format=simple"
        /\ ~Failed(HeadAnswer) =>
             IF HeadAnswer.status # 200 THEN IsServiceError(result)
             ELSE IF HeadAnswer.data.text = "not found"
             THEN result = Raise("NoRedirectException", "")
             ELSE result = Return(HeadAnswer.data.text)

C6_Witness ==
    /\ svc = "vbly" /\ Done /\ Answered
    /\ HeadAnswer.status = 200 /\ HeadAnswer.data.text = LongUrl
    /\ result = Return("http://example.org/x")

\* C8: a fetch call that returns, returns a non-empty URL string.
C8_ReturnsNonEmptyUrl ==
    (Done /\ result.kind = "return") => result.val \notin {None, ""}

ClosePolicy == {s \in Services : s \in HTTPServices /\ ~http_keepalive(s)}

\* C9: on snipurl, pixorial and twitter the connection is closed after each
\* exchange of a call, completed or failed, before fetch goes on or ends,
\* and each request carries Connection: close.
C9_ClosedAfterEachExchange ==
    /\ ClosePolicy = {"snipurl", "pixorial", "twitter"}
    /\ (svc \in ClosePolicy /\ exchanges # <<>>) =>
          /\ conn = "closed"
          /\ \A i \in DOMAIN exchanges :
                {p \in exchanges[i].req.headers : p[1] = "Connection"}
                    = {<<"Connection", "close">>}

\* The HEAD was answered, the connection is closed, the GET is still to come
C9_Witness ==
    /\ svc = "snipurl" /\ pc = "get" /\ Answered
    /\ HeadAnswer.status = 500 /\ conn = "closed"

\* C10: when an exchange of a call fails in the transport, the connection is
\* closed, that exchange is the call's last and fetch ends in ServiceException.
C10_TransportFailureIsServiceError ==
    \A i \in DOMAIN exchanges :
        Failed(exchanges[i].ans) =>
            /\ i = Len(exchanges)
            /\ Done
            /\ conn = "closed"
            /\ IsServiceError(result)

\* The GET of a call fails while its body is read
C10_Witness ==
    /\ svc = "isgd" /\ Done /\ Len(exchanges) = 2
    /\ ~Failed(exchanges[1].ans)
    /\ exchanges[2].ans.fail = "socket.error" /\ exchanges[2].ans.stage = "read"
    /\ conn = "closed" /\ IsServiceError(result)

\* C7: under a transport that gives each request one fixed answer, every
\* fetch of a code on one instance ends as the first one did, whatever calls
\* came before and whether or not the connection was closed in between; and
\* the headers sent for a method and path are the same in every call.
C7_SameOutcomeEveryCall ==
    /\ Done => \A e \in first : e.code = code => e.result = result
    /\ \A a, b \in stub :
          (a.req.method = b.req.method /\ a.req.path = b.req.path)
              => a.req.headers = b.req.headers

\* A later call on bit.ly's "bundles" 301, after which the instance closed
\* the connection in each earlier call
C7_Witness ==
    /\ mode = "stub" /\ svc = "bitly" /\ Done /\ calls >= 2
    /\ HeadAnswer.status = 301 /\ HeadAnswer.reason = "Moved Permanently"
    /\ result.cls = "CodeBlockedException" /\ conn = "closed"
    /\ \E e \in first : e.code = code /\ e.result = result

\* C11 as stated: a call that has ended made one or two exchanges, never
\* none and never more; of two the first is a HEAD whose response was read
\* and the second a GET.
C11_OneOrTwoExchanges ==
    /\ Len(exchanges) <= 2
    /\ Done => Len(exchanges) >= 1
    /\ pc = "get" => Len(exchanges) = 1 /\ ~Failed(exchanges[1].ans)
    /\ Len(exchanges) = 2 =>
          /\ exchanges[1].req.method = "HEAD" /\ ~Failed(exchanges[1].ans)
          /\ exchanges[2].req.method = "GET"

\* C11 as amended: a call makes at most two exchanges, and none exactly when
\* it is Trimnew's call for the code "500"; a GET is pending only after a
\* HEAD whose response was read, and of two exchanges the first is that HEAD
\* and the second a GET.
C11_AtMostTwoExchanges ==
    /\ Len(exchanges) <= 2
    /\ Done => (Len(exchanges) = 0 <=> (svc = "trimnew" /\ code = "500"))
    /\ pc = "get" => Len(exchanges) = 1 /\ ~Failed(exchanges[1].ans)
    /\ Len(exchanges) = 2 =>
          /\ exchanges[1].req.method = "HEAD" /\ ~Failed(exchanges[1].ans)
          /\ exchanges[2].req.method = "GET"

\* tinyurl.com's affiliate 301 and then the GET of the preview page
C11_Witness ==
    /\ svc = "tinyurl" /\ Done /\ Len(exchanges) = 2
    /\ exchanges[1].req.method = "HEAD" /\ exchanges[1].ans.status = 301
    /\ exchanges[2].req.method = "GET"
    /\ exchanges[2].req.path = "/preview.php?num=" \o code
    /\ result.kind = "return"

\* The objects of h that are service instances
InstancesOf(h) == {i \in DOMAIN h : h[i].type \in {factory_map[n] : n \in Services}}

\* The factory call that has just ended returned a new instance of the class
\* registered under `name`, with a connection of its own; the objects made
\* before are as they were
ReturnsNewInstance(name) ==
    LET out == returned'.out IN
    /\ out.kind = "return"
    /\ Len(heap') = Len(heap) + 2
    /\ SubSeq(heap', 1, Len(heap)) = heap
    /\ out.val \in InstancesOf(heap') \ DOMAIN heap
    /\ heap'[out.val].type = factory_map[name]
    /\ heap'[out.val]._conn \in (DOMAIN heap' \ DOMAIN heap) \ InstancesOf(heap')
    /\ \A i, j \in InstancesOf(heap') : i # j => heap'[i]._conn # heap'[j]._conn

\* The factory call that has just ended raised ValueError for a name that
\* is no key, and made no object
RaisesUnknownService(name) ==
    /\ returned'.out = Raise("ValueError", "Unknown service " \o name)
    /\ heap' = heap

\* C12 as stated: factory(name) raises ValueError and constructs nothing for
\* a name that is no key of the registry, and for a key returns a new
\* instance of the registered class that shares no connection with another.
C12_FactoryReturnsNewInstance ==
    [][LET name == returned'.name IN
       IF name \in Services THEN ReturnsNewInstance(name)
       ELSE RaisesUnknownService(name)]_vars

\* C12 as amended: for a key, factory(name) returns such a new instance, or,
\* for a class that looks up its host when constructed, raises socket.gaierror
\* or ValueError("Unknown host ...") and leaves no object behind.
C12_FactoryConstructsOrFails ==
    [][LET name == returned'.name
           out == returned'.out
       IN  IF name \in Services
           THEN \/ ReturnsNewInstance(name)
                \/ /\ name \in HTTPServices
                   /\ out.kind = "raise"
                   /\ out \in {Raise("socket.gaierror", ""),
                               Raise("ValueError", "Unknown host " \o hostname(name))}
                   /\ heap' = heap
           ELSE RaisesUnknownService(name)]_vars

\* Two calls of factory("bitly") have returned two instances, each with its
\* own connection
C12_Witness ==
    /\ Len(heap) = 4
    /\ returned = [name |-> "bitly", out |-> Return(3)]
    /\ heap[1].type = "Bitly" /\ heap[3].type = "Bitly"
    /\ heap[1]._conn = 2 /\ heap[3]._conn = 4
    /\ heap[2].type = "HTTPConnection" /\ heap[4].type = "HTTPConnection"

\* The four status sets of the class of s, in the order SimpleService.fetch
\* looks them up
StatusTable(s) ==
    << http_status_redirect(s), http_status_no_redirect(s),
       http_status_code_blocked(s), http_status_blocked(s) >>

\* C13: on every class with a status table, no status is in two of the
\* four sets, the sets a class inherits from SimpleService included.
C13_StatusSetsDisjoint ==
    svc \in SimpleServices =>
        \A i, j \in 1..4 : i # j => StatusTable(svc)[i] \cap StatusTable(svc)[j] = {}

\* The statuses the class's own fetch or hook treats as a redirect
OwnRedirectStatuses(s) ==
    CASE s = "bitly" -> {301, 302}
      [] s = "tinyurl" -> {301}
      [] s \in {"pixorial", "trim"} -> http_status_redirect(s)
      [] s \in VisibliServices -> http_status_redirect(s) \cup {302}
      [] OTHER -> {}

\* C14: on bitly, tinyurl, pixorial, trim, visibli and visiblihex a HEAD
\* response with a redirect status of the class and no Location header ends
\* the call in ServiceException: not in CodeBlockedException or
\* NoRedirectException, and not in a return.
C14_NoLocationIsServiceError ==
    (Answered /\ HeadAnswer.status \in OwnRedirectStatuses(svc)
     /\ HeadAnswer.location = None) =>
        Done /\ IsServiceError(result)

\* The page of its own a service redirects unknown codes to
OwnPage(s) ==
    CASE s \in {"trimnew", "trim"} -> "http://tr.im/404"
      [] s = "pixorial" -> "http://myhub.pixorial.com/"
      [] OTHER -> None

\* The HEAD of the call was answered with a redirect-ok status and the
\* service's own page as Location
RedirectedToOwnPage ==
    /\ svc \in {"trimnew", "trim", "pixorial"}
    /\ Answered
    /\ HeadAnswer.status \in http_status_redirect(svc)
    /\ HeadAnswer.location = OwnPage(svc)

\* C15 as stated: for every code, a redirect of trimnew, trim or pixorial to
\* the service's own page ends the call in NoRedirectException.
C15_OwnPageIsNoRedirect ==
    RedirectedToOwnPage =>
        Done /\ result.kind = "raise" /\ result.cls = "NoRedirectException"

\* C15 as amended: such a redirect ends the call in NoRedirectException,
\* except that Trim.fetch("404") returns http://tr.im/404.
C15_OwnPageIsNoRedirectButTrim404 ==
    RedirectedToOwnPage =>
        /\ Done
        /\ IF svc = "trim" /\ code = "404"
           THEN result = Return("http://tr.im/404")
           ELSE result.kind = "raise" /\ result.cls = "NoRedirectException"

\* Trimnew's 301 to http://tr.im/404, which SimpleService.fetch returned
C15_Witness ==
    /\ svc = "trimnew" /\ code = "404" /\ RedirectedToOwnPage /\ Done
    /\ dispatched = Return("http://tr.im/404")
    /\ result = Raise("NoRedirectException", "")

\* tinyurl.com's HEAD was answered 301 with a Location header
TinyurlMoved ==
    /\ svc = "tinyurl" /\ Answered
    /\ HeadAnswer.status = 301 /\ ~Falsy(HeadAnswer.location)

\* The X-tiny header of that answer marks an affiliate redirect
TinyurlAffiliate == ~Falsy(HeadAnswer.xtiny) /\ StartsWith(HeadAnswer.xtiny, "aff")

\* What C16 says the call gives for the answer `got` of the preview GET
TinyurlPreviewOutcome(location, got) ==
    LET target == got.data.group1
        click == urlparse(location)
        out == parse_qs(click.pairs, "out")
    IN  IF ~Failed(got) /\ got.status = 200 /\ target # None
        THEN IF target # "" THEN result = Return(unescape(target))
             ELSE IF click.netloc = "redirect.tinyurl.com" /\ click.path = "/api/click"
             THEN IF out # <<>> THEN result = Return(out[1])
                  ELSE result.kind = "raise" /\ result.cls \in ServiceExceptions
             ELSE result = Return(location)
        ELSE result.kind = "raise" /\ result.cls \in ServiceExceptions

\* C16: Tinyurl.fetch on a 301 with a Location and an X-tiny header starting
\* with "aff" GETs preview.php?num=<code> and returns the unescaped target
\* of the preview page, or for an empty target the Location with the
\* redirector removed; every other case ends in one of the four tinyback
\* exceptions.  Without the marker the Location is returned after the HEAD.
C16_TinyurlAffiliatePreview ==
    TinyurlMoved =>
        IF TinyurlAffiliate
        THEN /\ pc = "get" \/ (Done /\ Len(exchanges) = 2)
             /\ Len(exchanges) = 2 =>
                   /\ exchanges[2].req.method = "GET"
                   /\ exchanges[2].req.path = "/preview.php?num=" \o code
                   /\ TinyurlPreviewOutcome(HeadAnswer.location, exchanges[2].ans)
        ELSE Done /\ Len(exchanges) = 1 /\ result = Return(HeadAnswer.location)

\* The parameters named k in the query of u, as written
Params(u, k) == SelectSeq(u.pairs, LAMBDA p : p[1] = k)

\* The checks of C17 on a Location for the code c: the warning page of
\* bit.ly, one url and one hash parameter, the hash being the code
WarningChecks(location, c) ==
    /\ ~Falsy(location)
    /\ LET u == urlparse(location) IN
       /\ u.netloc = "bit.ly" /\ u.path = "/a/warning"
       /\ Len(Params(u, "url")) = 1 /\ Len(Params(u, "hash")) = 1
       /\ Params(u, "hash")[1][2] = c

\* C17: Bitly.fetch on a 302 returns the URL of the Location's query only
\* when the Location is bit.ly's /a/warning page with one url and one hash
\* parameter and the hash is the code; when a check fails the call ends in
\* ServiceException, and so it does whenever it does not return that URL.
C17_BitlyWarningUrl ==
    (svc = "bitly" /\ Answered /\ HeadAnswer.status = 302) =>
        /\ Done /\ Len(exchanges) = 1
        /\ IF result.kind = "return"
           THEN /\ WarningChecks(HeadAnswer.location, code)
                /\ result.val = unquote(Params(urlparse(HeadAnswer.location), "url")[1][2])
           ELSE IsServiceError(result)
        /\ ~WarningChecks(HeadAnswer.location, code) => IsServiceError(result)
        /\ HeadAnswer.location =
              "http://bit.ly/a/warning?url=" \o LongUrlQuoted \o "&hash=" \o code
                => result = Return(LongUrl)

\* The warning page for the code of the call, and the URL in it returned
C17_Witness ==
    /\ svc = "bitly" /\ Done /\ Answered /\ HeadAnswer.status = 302
    /\ code = "abc"
    /\ HeadAnswer.location = "http://bit.ly/a/warning?url=" \o LongUrlQuoted \o "&hash=abc"
    /\ result = Return("http://example.org/x")

====
